---- MODULE Spec2Model ----
(***************************************************************************)
(* The capture-and-interpretation session of the VitalScan component       *)
(* (src/components/VitalScan.tsx): the React state of the component, its   *)
(* refs, the interval timer and the recording engine it schedules, and the *)
(* asynchronous processRecording pipeline (extraction, the race between    *)
(* the remote interpretation and its deadline, persistence).               *)
(*                                                                         *)
(* A function component is re-created on every render, so a callback that  *)
(* outlives the render that created it (the interval callback, the         *)
(* recorder's onstop) reads the state values of THAT render.  Such a       *)
(* callback carries its render's values in a "closure" record; refs        *)
(* (chunksRef, timerRef, mediaRecorderRef, isMounted) are read live.       *)
(***************************************************************************)
EXTENDS Integers, Sequences, FiniteSets, TLC

\* ---------------------------------------------------------------- bounds
MaxElapsed == 16        \* the largest elapsed time a tick computes
MaxChunks == 1          \* chunks the buffer holds in the model
MaxSessions == 2        \* accepted starts that are explored
MaxCamReq == 2          \* getUserMedia requests that are explored
MaxLines == 2           \* lines of a report text of the remote service
MaxChecks == 4          \* performCheck calls that are told apart

\* ------------------------------------------------------ program constants
RecordingCeiling == 15  \* elapsed >= 15 triggers the auto stop
AiDeadline == 8         \* setTimeout(..., 8000), in seconds
DefaultHrv == 45
DefaultSystolic == 120
DefaultDiastolic == 80
StressThreshold == 50
ElevatedAbove == 100

\* ------------------------------------------------------------ messages
Null == "null"
CameraDeniedMsg == "Camera access denied. Please check browser permissions."
NoVideoMsg == "No video data captured. Please hold still."
NoPulseMsg == "The diagnostic engine could not extract a pulse from this video."
NetworkHintMsg == "Network Error: Cannot connect to rPPG server on Port 8001. Check CORS or use Simulation Mode."
EngineFailedMsg == "Recording engine failed. Please try Simulation Mode."
FailedToFetch == "TypeError: Failed to fetch"
ServerError == "HTTP 500"

\* ----------------------------------------------- the extractor's answers
\* A number is held in tenths (724 is 72.4); Undef stands for a field the
\* response does not carry.
Undef == -1
NoBp == [systolic |-> Undef, diastolic |-> Undef]
SomeBp == [systolic |-> 1184, diastolic |-> 756]
NoData == [present |-> FALSE, heart_rate |-> Undef, heartRate |-> Undef,
           blood_pressure |-> NoBp, bloodPressure |-> NoBp,
           hrv |-> Undef, stress_index |-> Undef]
Vitals ==
    {[hr |-> 724, bp |-> SomeBp, hrv |-> 386, stress |-> 501],
     [hr |-> 1005, bp |-> NoBp, hrv |-> Undef, stress |-> Undef],
     [hr |-> 880, bp |-> [systolic |-> 1300, diastolic |-> Undef],
      hrv |-> 524, stress |-> 500]}
SnakeResponses ==
    {[NoData EXCEPT !.present = TRUE, !.heart_rate = v.hr,
                    !.blood_pressure = v.bp, !.hrv = v.hrv,
                    !.stress_index = v.stress] : v \in Vitals}
\* The same answer under the other naming; one with every field will do.
CamelResponses ==
    {[NoData EXCEPT !.present = TRUE, !.heartRate = v.hr,
                    !.bloodPressure = v.bp, !.hrv = v.hrv,
                    !.stress_index = v.stress] :
        v \in {w \in Vitals : w.bp = SomeBp}}
EmptyResponse == [NoData EXCEPT !.present = TRUE]
Responses == SnakeResponses \cup CamelResponses \cup {EmptyResponse, NoData}
ExtractErrors == {FailedToFetch, ServerError}
RemoteTexts == {"REMOTE REPORT", ""}
SaveErrors == {ServerError}

\* The values of Math.floor((Date.now() - startTime) / 1000) that the
\* interval callback is run with: every one from just below the ceiling on
\* (the earlier ones all behave like the one below the ceiling).
ElapsedSeen == (RecordingCeiling - 1) .. MaxElapsed

VARIABLES
    simulationMode,   \* the component's prop
    isRecording, recordingTime, isProcessing, result, error, storageStatus,
    isMounted,        \* isMounted.current
    srcObject,        \* videoRef.current.srcObject: 0, or the stream's id
    liveStreams,      \* the acquired streams whose tracks are not stopped
    camPending,       \* getUserMedia calls in flight
    camCount,         \* getUserMedia calls made
    recorder,         \* mediaRecorderRef.current and the engine behind it
    chunksRef,        \* chunksRef.current
    timerRef,         \* timerRef.current: 0 is null
    tick,             \* the interval scheduled by startRecording
    sessionId,        \* accepted starts so far
    pc,               \* where the processRecording run stands
    procSession,      \* the session whose clip the run processes
    procClosure,      \* the render values the run's processRecording reads
    rppgData,         \* the run's extraction answer
    aiCall,           \* the remote interpretVitals promise
    aiTimer,          \* the deadline timer
    aiClock,          \* seconds the open race has lasted
    saveCall,         \* the saveScanResult promise
    extractLog,       \* the analyzeVideo calls made
    interpCalls,      \* the interpretVitals calls made
    saveCalls,        \* the saveScanResult calls made
    lastOp,           \* the session operation that led to this state, or
                      \* "other" after a step of the environment
    useProxy, serviceStatus,
    healthInFlight,   \* a checkHealth call is in flight (calls that
                      \* overlap are not told apart)
    healthTimer,      \* the 10 s interval of the health effect is scheduled
    healthChecks,     \* the checkHealth calls in flight, told apart
    healthIssued,     \* performCheck calls made
    healthShown,      \* the check whose answer serviceStatus holds
    reportText,       \* the text handed to renderClinicalReport
    rendered          \* what renderClinicalReport returned for it

ui == <<isRecording, recordingTime, isProcessing, result, error, storageStatus>>
camera == <<srcObject, liveStreams, camPending, camCount>>
capture == <<recorder, chunksRef, timerRef, tick, sessionId>>
race == <<rppgData, aiCall, aiTimer, aiClock>>
logs == <<extractLog, interpCalls, saveCalls>>
run == <<pc, procSession, procClosure>>
health == <<useProxy, serviceStatus, healthInFlight, healthTimer>>
polls == <<healthChecks, healthIssued, healthShown>>
view == <<reportText, rendered>>
vars == <<simulationMode, ui, isMounted, camera, capture, run, race, saveCall,
          logs, lastOp, health, polls, view>>

\* ------------------------------------------------------------- helpers
\* Math.round of a number held in tenths.
Round(t) == (t + 5) \div 10

\* JS `a || b` on an optional number: undefined and 0 are falsy.
OrElse(a, b) == IF a = Undef \/ a = 0 THEN b ELSE a

RECURSIVE BlobSize(_)
BlobSize(chunks) ==
    IF chunks = <<>> THEN 0 ELSE Head(chunks).size + BlobSize(Tail(chunks))

\* The values of the current render, which every closure created by it reads.
RenderValues ==
    [isRecording |-> isRecording, isProcessing |-> isProcessing,
     simulationMode |-> simulationMode]
NoClosure ==
    [isRecording |-> FALSE, isProcessing |-> FALSE, simulationMode |-> FALSE]
NoRecorder == [state |-> "none", stopPending |-> FALSE, session |-> 0,
               closure |-> NoClosure]
NoTick == [active |-> FALSE, elapsed |-> 0, closure |-> NoClosure]
\* A performCheck call: its number and the useProxy of its closure.
NoCheck == [id |-> 0, proxy |-> FALSE]
FirstCheck == [id |-> 1, proxy |-> FALSE]
\* No report has been rendered: the component shows no result.
NotRendered == [root |-> "none", children |-> <<>>]

Init ==
    /\ simulationMode \in BOOLEAN
    /\ isRecording = FALSE /\ recordingTime = 0 /\ isProcessing = FALSE
    /\ result = <<>> /\ error = Null /\ storageStatus = Null
    /\ isMounted = TRUE
    /\ srcObject = 0 /\ liveStreams = {} /\ camPending = 1 /\ camCount = 1
    /\ recorder = NoRecorder /\ chunksRef = <<>> /\ timerRef = 0
    /\ tick = NoTick /\ sessionId = 0
    /\ pc = "idle" /\ procSession = 0 /\ rppgData = NoData
    /\ procClosure = NoClosure
    /\ aiCall = "none" /\ aiTimer = "none" /\ aiClock = 0 /\ saveCall = "none"
    /\ extractLog = {} /\ interpCalls = 0 /\ saveCalls = 0
    /\ lastOp = "mount"
    /\ useProxy = FALSE /\ serviceStatus = Null
    /\ healthInFlight = TRUE /\ healthTimer = TRUE
    /\ healthChecks = {FirstCheck} /\ healthIssued = 1
    /\ healthShown = NoCheck
    /\ reportText = Null /\ rendered = NotRendered

\* ------------------------------------------------- strings, as JS has them
\* A text is a string; SubSeq(s, i, i) is its i-th character.
StartsAt(s, i, p) ==
    i + Len(p) - 1 <= Len(s) /\ SubSeq(s, i, i + Len(p) - 1) = p

\* s.startsWith(p)
StartsWith(s, p) == StartsAt(s, 1, p)

\* s.indexOf(p, from), counted from 1; 0 when p does not occur
IndexOf(s, p, from) ==
    IF \E i \in from..Len(s) : StartsAt(s, i, p)
    THEN CHOOSE i \in from..Len(s) :
            StartsAt(s, i, p) /\ \A j \in from..(i - 1) : ~StartsAt(s, j, p)
    ELSE 0

\* s.includes(p)
Includes(s, p) == IndexOf(s, p, 1) # 0

\* s.slice(n)
Drop(s, n) == SubSeq(s, n + 1, Len(s))

\* s.split(sep)
RECURSIVE Split(_, _)
Split(s, sep) ==
    LET i == IndexOf(s, sep, 1)
    IN  IF i = 0 THEN <<s>>
        ELSE <<SubSeq(s, 1, i - 1)>> \o Split(Drop(s, i + Len(sep) - 1), sep)

\* s.replace(/p1|p2|.../g, ''): at every position the first alternative
\* that matches is removed.
RECURSIVE RemoveAll(_, _)
RemoveAll(s, pats) ==
    IF s = "" THEN ""
    ELSE IF \E k \in 1..Len(pats) : StartsWith(s, pats[k])
         THEN LET k == CHOOSE k \in 1..Len(pats) :
                          /\ StartsWith(s, pats[k])
                          /\ \A l \in 1..(k - 1) : ~StartsWith(s, pats[l])
              IN  RemoveAll(Drop(s, Len(pats[k])), pats)
         ELSE SubSeq(s, 1, 1) \o RemoveAll(Drop(s, 1), pats)

\* s.replace(p, '') with a string p: the first occurrence is removed.
RemoveFirst(s, p) ==
    LET i == IndexOf(s, p, 1)
    IN  IF i = 0 THEN s ELSE SubSeq(s, 1, i - 1) \o Drop(s, i + Len(p) - 1)

\* The white space of a line (a line holds no line feed).
WhiteSpace == {" ", "\t", "\r"}

RECURSIVE TrimStart(_)
TrimStart(s) ==
    IF s # "" /\ SubSeq(s, 1, 1) \in WhiteSpace THEN TrimStart(Drop(s, 1))
    ELSE s

RECURSIVE TrimEnd(_)
TrimEnd(s) ==
    IF s # "" /\ SubSeq(s, Len(s), Len(s)) \in WhiteSpace
    THEN TrimEnd(SubSeq(s, 1, Len(s) - 1))
    ELSE s

\* s.trim()
Trim(s) == TrimEnd(TrimStart(s))

\* s.split(/(\[.*?\])/g): the texts outside the bracket groups and, between
\* them, the groups themselves; a group runs from a '[' to the first ']'
\* after it.
RECURSIVE SplitBrackets(_)
SplitBrackets(s) ==
    LET i == IndexOf(s, "[", 1)
        j == IF i = 0 THEN 0 ELSE IndexOf(s, "]", i + 1)
    IN  IF j = 0 THEN <<s>>
        ELSE <<SubSeq(s, 1, i - 1), SubSeq(s, i, j)>>
                \o SplitBrackets(Drop(s, j))

\* `${n}` of a number held in tenths: 1184 prints as 118.4, 1200 as 120.
Decimal(t) ==
    IF t % 10 = 0 THEN ToString(t \div 10)
    ELSE ToString(t \div 10) \o "." \o ToString(t % 10)

\* ------------------------------------------------------ processRecording
\* err.message.includes('Failed to fetch') ? hint : err.message
ErrorShown(msg) ==
    IF Includes(msg, "Failed to fetch") THEN NetworkHintMsg ELSE msg

\* catch + finally of processRecording: the run ends with `msg`; err and
\* busy are error and isProcessing as the run has left them so far.
Fail(msg, err, busy) ==
    /\ error' = (IF isMounted THEN ErrorShown(msg) ELSE err)
    /\ isProcessing' = (IF isMounted THEN FALSE ELSE busy)
    /\ pc' = "done"

\* Mutant of EmptyClip: the payload check is missing.
EmptyClip_Unchecked(cl, chunks) == FALSE

\* The payload check of the live branch: an empty blob is refused.
EmptyClip(cl, chunks) == ~cl.simulationMode /\ BlobSize(chunks) = 0

\* processRecording up to its first await, called with the render values cl
\* of the closure that is invoked.
ProcessRecording(cl, chunks, sess) ==
    IF cl.isProcessing
    THEN UNCHANGED <<isProcessing, error, run, extractLog>>
    ELSE /\ procSession' = sess
         /\ procClosure' = cl
         /\ IF EmptyClip(cl, chunks)
            THEN /\ Fail(NoVideoMsg, Null, TRUE)
                 /\ UNCHANGED extractLog
            ELSE /\ isProcessing' = TRUE
                 /\ error' = Null
                 /\ pc' = "extract"
                 /\ extractLog' = extractLog \cup
                        {[simulation |-> cl.simulationMode,
                          size |-> IF cl.simulationMode THEN 0
                                   ELSE BlobSize(chunks)]}

\* Mutant of HasPulse: only the presence of an answer is checked.
HasPulse_AnyAnswer(d) == d.present

\* !rppgData || typeof rppgData.heart_rate === 'undefined'
HasPulse(d) == d.present /\ d.heart_rate # Undef

\* Mutant of Fallback: the tag prints the truncated heart rate.
Fallback_Truncated(d) ==
    [kind |-> "fallback", body |-> "",
     status |-> IF Round(d.heart_rate) > ElevatedAbove THEN "ELEVATED"
                ELSE "STABLE",
     bpm |-> d.heart_rate \div 10,
     systolic |-> OrElse(d.blood_pressure.systolic, DefaultSystolic * 10),
     diastolic |-> OrElse(d.blood_pressure.diastolic, DefaultDiastolic * 10)]

\* Mutant of Fallback: the status is decided on the heart rate as answered.
Fallback_RawThreshold(d) ==
    [kind |-> "fallback", body |-> "",
     status |-> IF d.heart_rate > ElevatedAbove * 10 THEN "ELEVATED"
                ELSE "STABLE",
     bpm |-> Round(d.heart_rate),
     systolic |-> OrElse(d.blood_pressure.systolic, DefaultSystolic * 10),
     diastolic |-> OrElse(d.blood_pressure.diastolic, DefaultDiastolic * 10)]

\* The local fallback report; its numbers are the tag values it prints.
Fallback(d) ==
    [kind |-> "fallback", body |-> "",
     status |-> IF Round(d.heart_rate) > ElevatedAbove THEN "ELEVATED"
                ELSE "STABLE",
     bpm |-> Round(d.heart_rate),
     systolic |-> OrElse(d.blood_pressure.systolic, DefaultSystolic * 10),
     diastolic |-> OrElse(d.blood_pressure.diastolic, DefaultDiastolic * 10)]

Remote(t) ==
    [kind |-> "remote", body |-> t, status |-> "", bpm |-> Undef,
     systolic |-> Undef, diastolic |-> Undef]

\* Mutant of ScanResult: the fields are copied without their defaults and
\* the stress threshold is inclusive.
ScanResult_NoDefaults(d, ai) ==
    [heartRate |-> Round(d.heart_rate),
     hrv |-> IF d.hrv = Undef THEN Undef ELSE Round(d.hrv),
     bloodPressure |->
        [systolic |-> Round(OrElse(d.blood_pressure.systolic,
                                   DefaultSystolic * 10)),
         diastolic |-> Round(OrElse(d.blood_pressure.diastolic,
                                    DefaultDiastolic * 10))],
     stressLevel |-> IF OrElse(d.stress_index, 0) >= StressThreshold * 10
                     THEN "High" ELSE "Normal",
     aiInterpretation |-> ai]

\* The scanResult literal of lines 111-121 (the timestamp, which is always
\* set from the clock, is left out).
ScanResult(d, ai) ==
    [heartRate |-> Round(d.heart_rate),
     hrv |-> Round(OrElse(d.hrv, DefaultHrv * 10)),
     bloodPressure |->
        [systolic |-> Round(OrElse(d.blood_pressure.systolic,
                                   DefaultSystolic * 10)),
         diastolic |-> Round(OrElse(d.blood_pressure.diastolic,
                                    DefaultDiastolic * 10))],
     stressLevel |-> IF OrElse(d.stress_index, 0) > StressThreshold * 10
                     THEN "High" ELSE "Normal",
     aiInterpretation |-> ai]

\* The await of analyzeVideo settles: rejection, or an answer that is
\* assigned to rppgData and checked for a pulse; with a pulse the deadline
\* timer is armed and the remote interpretation is called.
ExtractSettle ==
    /\ UNCHANGED <<health, polls, view>>
    /\ pc = "extract"
    /\ \/ \E msg \in ExtractErrors :
            /\ Fail(msg, error, isProcessing)
            /\ lastOp' = "ExtractRejected"
            /\ UNCHANGED <<race, interpCalls>>
       \/ \E d \in Responses :
            /\ rppgData' = d
            /\ lastOp' = "ExtractResolved"
            /\ IF HasPulse(d)
               THEN /\ aiTimer' = "armed" /\ aiClock' = 0
                    /\ aiCall' = "pending"
                    /\ interpCalls' = interpCalls + 1
                    /\ pc' = "interpret"
                    /\ UNCHANGED <<error, isProcessing>>
               ELSE /\ Fail(NoPulseMsg, error, isProcessing)
                    /\ UNCHANGED <<aiCall, aiTimer, aiClock, interpCalls>>
    /\ UNCHANGED <<simulationMode, isRecording, recordingTime, result,
                   storageStatus, isMounted, camera, capture, procSession,
                   procClosure, saveCall, extractLog, saveCalls>>

\* Mutant of RaceOpen: every settlement is taken, also a late one.
RaceOpen_Always == TRUE

\* Promise.race: a settlement is taken only while the race is pending.
RaceOpen == pc = "interpret"

\* Mutant of Continue: the save is requested before the result is set.
Continue_SaveFirst(ai) ==
    IF isMounted
    THEN /\ saveCalls' = saveCalls + 1
         /\ saveCall' = "pending"
         /\ pc' = "save"
         /\ UNCHANGED result
    ELSE /\ pc' = "done"
         /\ UNCHANGED <<result, saveCalls, saveCall>>

\* After the race: the result is assembled, shown and handed to
\* saveScanResult (lines 111-127), or dropped when unmounted.
Continue(ai) ==
    LET scanResult == ScanResult(rppgData, ai) IN
    IF isMounted
    THEN /\ result' = <<scanResult>>
         /\ saveCalls' = saveCalls + 1
         /\ saveCall' = "pending"
         /\ pc' = "save"
    ELSE /\ pc' = "done"
         /\ UNCHANGED <<result, saveCalls, saveCall>>

\* One settlement of a racer: it decides an open race and is ignored by a
\* decided one.  The clock is of no use once the race is decided.
Settle(ai) ==
    /\ IF RaceOpen THEN Continue(ai)
       ELSE UNCHANGED <<result, saveCalls, saveCall, pc>>
    /\ aiClock' = 0

AiFrame ==
    UNCHANGED <<simulationMode, isRecording, recordingTime, isProcessing,
                error, storageStatus, isMounted, camera, capture, procSession,
                procClosure, rppgData, extractLog, interpCalls>>

\* geminiService.interpretVitals resolves with data.response.
AiResolve ==
    /\ UNCHANGED <<health, polls, view>>
    /\ aiCall = "pending"
    /\ \E t \in RemoteTexts : Settle(Remote(t))
    /\ aiCall' = "settled"
    /\ lastOp' = IF pc = "interpret" THEN "AiResolve" ELSE "LateAiResolve"
    /\ UNCHANGED aiTimer
    /\ AiFrame

\* geminiService.interpretVitals rejects ('Failed to interpret vitals').
AiReject ==
    /\ UNCHANGED <<health, polls, view>>
    /\ aiCall = "pending"
    /\ Settle(Fallback(rppgData))
    /\ aiCall' = "settled"
    /\ lastOp' = IF pc = "interpret" THEN "AiReject" ELSE "other"
    /\ UNCHANGED aiTimer
    /\ AiFrame

\* Mutant of AiTimeout: the timer fires but is no party to the race.
AiTimeout_NotRaced ==
    /\ UNCHANGED <<health, polls, view>>
    /\ aiTimer = "armed"
    /\ aiClock = AiDeadline \/ pc # "interpret"
    /\ aiTimer' = "fired"
    /\ lastOp' = "other"
    /\ UNCHANGED <<result, saveCalls, saveCall, pc, aiClock, aiCall>>
    /\ AiFrame

\* The 8000 ms timer fires and rejects timeoutPromise: at the deadline of
\* an open race, or some time after the race was decided.
AiTimeout ==
    /\ UNCHANGED <<health, polls, view>>
    /\ aiTimer = "armed"
    /\ aiClock = AiDeadline \/ pc # "interpret"
    /\ Settle(Fallback(rppgData))
    /\ aiTimer' = "fired"
    /\ lastOp' = IF pc = "interpret" THEN "AiTimeout" ELSE "other"
    /\ UNCHANGED aiCall
    /\ AiFrame

\* A second of the open race passes.
AiClockTick ==
    /\ UNCHANGED <<health, polls, view>>
    /\ pc = "interpret"
    /\ aiTimer = "armed"
    /\ aiClock < AiDeadline
    /\ aiClock' = aiClock + 1
    /\ lastOp' = "other"
    /\ UNCHANGED <<simulationMode, ui, isMounted, camera, capture, run,
                   rppgData, aiCall, aiTimer, saveCall, logs>>

\* saved ? (simulationMode ? 'local' : 'cloud') : 'local'
StorageStatusOf(saved, sim) ==
    IF saved THEN (IF sim THEN "local" ELSE "cloud") ELSE "local"

\* The await of saveScanResult settles: with a boolean, after which the
\* status is set, or with a rejection, which the catch of processRecording
\* takes like any other.
SaveSettle ==
    /\ UNCHANGED <<health, polls, view>>
    /\ pc = "save"
    /\ saveCall = "pending"
    /\ \/ \E saved \in BOOLEAN :
            /\ storageStatus' =
                  StorageStatusOf(saved, procClosure.simulationMode)
            /\ saveCall' = (IF saved THEN "saved" ELSE "unsaved")
            /\ isProcessing' = (IF isMounted THEN FALSE ELSE isProcessing)
            /\ pc' = "done"
            /\ UNCHANGED error
       \/ \E msg \in SaveErrors :
            /\ Fail(msg, error, isProcessing)
            /\ saveCall' = "rejected"
            /\ UNCHANGED storageStatus
    /\ lastOp' = "other"
    /\ UNCHANGED <<simulationMode, isRecording, recordingTime, result,
                   isMounted, camera, capture, procSession, procClosure, race,
                   logs>>
\* ------------------------------------------------------------- capture
\* Mutant of StopRefused: stopRecording does not look at isRecording.
StopRefused_Unguarded(cl) == FALSE

\* if (!isRecording) return;
StopRefused(cl) == ~cl.isRecording

\* stopRecording as the closure of a render with the values cl runs it; tk
\* is the interval as the caller leaves it.
StopRecording(cl, tk) ==
    IF StopRefused(cl)
    THEN /\ tick' = tk
         /\ UNCHANGED <<isRecording, timerRef, recorder, isProcessing, error,
                        run, extractLog>>
    ELSE /\ isRecording' = FALSE
         /\ timerRef' = 0
         /\ tick' = IF timerRef # 0 THEN [tk EXCEPT !.active = FALSE] ELSE tk
         /\ IF recorder.state = "recording"
            THEN /\ recorder' = [recorder EXCEPT !.state = "inactive",
                                                 !.stopPending = TRUE]
                 /\ UNCHANGED <<isProcessing, error, run, extractLog>>
            ELSE /\ ProcessRecording(cl, chunksRef, sessionId)
                 /\ UNCHANGED recorder

\* The elapsed time the next run of the interval callback computes.
NextElapsed(e) ==
    CHOOSE n \in ElapsedSeen :
        n > e /\ \A m \in ElapsedSeen : m > e => n <= m

\* The interval callback of startRecording: elapsed is recomputed, shown,
\* and at the ceiling the callback's own stopRecording is called.
Tick ==
    /\ UNCHANGED <<health, polls, view>>
    /\ tick.active
    /\ tick.elapsed < MaxElapsed
    /\ LET elapsed == NextElapsed(tick.elapsed)
           tk == [tick EXCEPT !.elapsed = elapsed]
       IN /\ recordingTime' = elapsed
          /\ IF elapsed >= RecordingCeiling
             THEN StopRecording(tick.closure, tk)
             ELSE /\ tick' = tk
                  /\ UNCHANGED <<isRecording, timerRef, recorder, isProcessing,
                                 error, run, extractLog>>
    /\ lastOp' = "other"
    /\ UNCHANGED <<simulationMode, result, storageStatus, isMounted, camera,
                   chunksRef, sessionId, race, saveCall, interpCalls, saveCalls>>

\* Mutant of StartRefused: the re-entrancy guard is missing.
StartRefused_Never(cl) == FALSE

\* Mutant of StartRefused: the guard looks at isProcessing alone.
StartRefused_OnlyProcessing(cl) == cl.isProcessing

\* if (isRecording || isProcessing) return;
StartRefused(cl) == cl.isRecording \/ cl.isProcessing

\* Mutant of ClearedTick: the catch leaves the interval running.
ClearedTick_StillRuns(cl) == [active |-> TRUE, elapsed |-> 0, closure |-> cl]

\* if (timerRef.current) clearInterval(timerRef.current); in the catch of
\* the engine: the interval created a few lines earlier never fires.
ClearedTick(cl) == [active |-> FALSE, elapsed |-> 0, closure |-> cl]

\* The Start Capture button of the current render.
StartRecording ==
    /\ UNCHANGED <<health, polls, view>>
    /\ isMounted
    /\ IF StartRefused(RenderValues)
       THEN /\ lastOp' = "StartRefused"
            /\ UNCHANGED <<ui, capture>>
       ELSE /\ sessionId < MaxSessions
            /\ sessionId' = sessionId + 1
            /\ result' = <<>>
            /\ chunksRef' = <<>>
            /\ recordingTime' = 0
            /\ timerRef' = sessionId + 1
            /\ UNCHANGED <<isProcessing, storageStatus>>
            /\ IF ~simulationMode /\ srcObject # 0
               THEN \E started \in BOOLEAN :
                      IF started
                      THEN /\ recorder' = [state |-> "recording",
                                           stopPending |-> FALSE,
                                           session |-> sessionId + 1,
                                           closure |-> RenderValues]
                           /\ tick' = [active |-> TRUE, elapsed |-> 0,
                                       closure |-> RenderValues]
                           /\ isRecording' = TRUE
                           /\ error' = Null
                           /\ lastOp' = "StartRecording"
                      ELSE /\ error' = EngineFailedMsg
                           /\ isRecording' = FALSE
                           /\ tick' = ClearedTick(RenderValues)
                           /\ UNCHANGED recorder
                           /\ lastOp' = "StartEngineFailed"
               ELSE /\ tick' = [active |-> TRUE, elapsed |-> 0,
                                closure |-> RenderValues]
                    /\ isRecording' = TRUE
                    /\ error' = Null
                    /\ UNCHANGED recorder
                    /\ lastOp' = "StartRecording"
    /\ UNCHANGED <<simulationMode, isMounted, camera, run, race, saveCall, logs>>

\* recorder.ondataavailable, once a second while the engine records.
DataAvailable ==
    /\ UNCHANGED <<health, polls, view>>
    /\ recorder.state = "recording"
    /\ Len(chunksRef) < MaxChunks
    /\ \E size \in {0, 1} :
          chunksRef' = IF size > 0
                       THEN Append(chunksRef, [session |-> recorder.session,
                                               size |-> size])
                       ELSE chunksRef
    /\ lastOp' = "other"
    /\ UNCHANGED <<simulationMode, ui, isMounted, camera, recorder, timerRef,
                   tick, sessionId, run, race, saveCall, logs>>

\* The engine stops by itself (its stream's tracks end, or it fails): it
\* becomes inactive and its stop event is queued.
RecorderEnds ==
    /\ UNCHANGED <<health, polls, view>>
    /\ recorder.state = "recording"
    /\ recorder' = [recorder EXCEPT !.state = "inactive", !.stopPending = TRUE]
    /\ lastOp' = "other"
    /\ UNCHANGED <<simulationMode, ui, isMounted, camera, chunksRef, timerRef,
                   tick, sessionId, run, race, saveCall, logs>>

\* The queued stop: the last dataavailable, then recorder.onstop, which
\* calls the processRecording of the render that created the recorder.
RecorderOnStop ==
    /\ UNCHANGED <<health, polls, view>>
    /\ recorder.stopPending
    /\ \E size \in {0, 1} :
          /\ chunksRef' = IF size > 0 /\ Len(chunksRef) < MaxChunks
                          THEN Append(chunksRef, [session |-> recorder.session,
                                                  size |-> size])
                          ELSE chunksRef
          /\ ProcessRecording(recorder.closure, chunksRef', recorder.session)
    /\ recorder' = [recorder EXCEPT !.stopPending = FALSE]
    /\ lastOp' = "RecorderOnStop"
    /\ UNCHANGED <<simulationMode, isRecording, recordingTime, result,
                   storageStatus, isMounted, camera, timerRef, tick, sessionId,
                   race, saveCall, interpCalls, saveCalls>>
\* -------------------------------------------------------------- camera
\* The id of the next stream getUserMedia hands out: streams are numbered
\* in the order they are granted.
NewStream ==
    LET ids == liveStreams \cup {srcObject}
    IN 1 + CHOOSE n \in ids : \A m \in ids : m <= n

\* getUserMedia resolves: the stream is attached when the video element is
\* still there (videoRef.current is null once the component is unmounted).
CamGranted ==
    /\ UNCHANGED <<health, polls, view>>
    /\ camPending > 0
    /\ LET stream == NewStream
       IN /\ liveStreams' = liveStreams \cup {stream}
          /\ srcObject' = IF isMounted THEN stream ELSE srcObject
    /\ camPending' = camPending - 1
    /\ lastOp' = "other"
    /\ UNCHANGED <<simulationMode, ui, isMounted, camCount, capture, run, race,
                   saveCall, logs>>

\* Mutant of CamDenied: the error is set without looking at isMounted.
CamDenied_Unguarded ==
    /\ UNCHANGED <<health, polls, view>>
    /\ camPending > 0
    /\ camPending' = camPending - 1
    /\ error' = CameraDeniedMsg
    /\ lastOp' = "other"
    /\ UNCHANGED <<simulationMode, isRecording, recordingTime, isProcessing,
                   result, storageStatus, isMounted, srcObject, liveStreams,
                   camCount, capture, run, race, saveCall, logs>>

\* getUserMedia rejects.
CamDenied ==
    /\ UNCHANGED <<health, polls, view>>
    /\ camPending > 0
    /\ camPending' = camPending - 1
    /\ error' = (IF isMounted THEN CameraDeniedMsg ELSE error)
    /\ lastOp' = "other"
    /\ UNCHANGED <<simulationMode, isRecording, recordingTime, isProcessing,
                   result, storageStatus, isMounted, srcObject, liveStreams,
                   camCount, capture, run, race, saveCall, logs>>

\* The Retry Live button of the error panel: setError(null); startCamera().
Retry ==
    /\ UNCHANGED <<health, polls, view>>
    /\ isMounted
    /\ error # Null
    /\ camCount < MaxCamReq
    /\ error' = Null
    /\ camPending' = camPending + 1
    /\ camCount' = camCount + 1
    /\ lastOp' = "other"
    /\ UNCHANGED <<simulationMode, isRecording, recordingTime, isProcessing,
                   result, storageStatus, isMounted, srcObject, liveStreams,
                   capture, run, race, saveCall, logs>>

\* The Clear button under a result: setResult(null).
Clear ==
    /\ UNCHANGED <<health, polls, view>>
    /\ isMounted
    /\ result # <<>>
    /\ result' = <<>>
    /\ lastOp' = "other"
    /\ UNCHANGED <<simulationMode, isRecording, recordingTime, isProcessing,
                   error, storageStatus, isMounted, camera, capture, run, race,
                   saveCall, logs>>

\* The Live / Sim switch of the application header changes the prop.  The
\* new prop gives a new performCheck, so the health effect runs again: its
\* interval is replaced and a check is issued at once (lines 49-53).
SetSimulationMode ==
    /\ isMounted
    /\ simulationMode' = ~simulationMode
    /\ healthInFlight' = TRUE
    /\ lastOp' = "other"
    /\ UNCHANGED <<ui, isMounted, camera, capture, run, race, saveCall, logs,
                   useProxy, serviceStatus, healthTimer, polls, view>>

\* stopCamera: the tracks of the stream attached to the video element are
\* stopped; src is videoRef.current?.srcObject, 0 when there is none.
StopCamera(streams, src) == IF src # 0 THEN streams \ {src} ELSE streams

\* The cleanups of the effects at unmount: isMounted.current = false;
\* stopCamera(); clearInterval of the health interval (lines 42-45, 52).
\* The cleanup reads videoRef.current when it runs: the element, or null
\* when React has detached the ref of the removed element before it runs
\* the effect's cleanup.
Unmount ==
    /\ isMounted
    /\ isMounted' = FALSE
    /\ \E src \in {srcObject, 0} : liveStreams' = StopCamera(liveStreams, src)
    /\ healthTimer' = FALSE
    /\ lastOp' = "other"
    /\ UNCHANGED <<simulationMode, ui, srcObject, camPending, camCount,
                   capture, run, race, saveCall, logs, useProxy,
                   serviceStatus, healthInFlight, polls, view>>

\* --------------------------------------------------------- health polling
\* What checkHealth resolves with: the {backend, rppg} record, shown as is.
ServiceStatuses == {"reported"}

\* The 10 s interval of the health effect fires: performCheck().
HealthPoll ==
    /\ healthTimer
    /\ healthInFlight' = TRUE
    /\ lastOp' = "other"
    /\ UNCHANGED <<simulationMode, ui, isMounted, camera, capture, run, race,
                   saveCall, logs, useProxy, serviceStatus, healthTimer,
                   polls, view>>

\* Mutant of HealthSettle: a failed check is reported as a session error.
HealthSettle_ReportsFailure ==
    /\ healthInFlight
    /\ \E more \in BOOLEAN : healthInFlight' = more
    /\ \/ \E status \in ServiceStatuses :
            /\ serviceStatus' = (IF isMounted THEN status ELSE serviceStatus)
            /\ UNCHANGED error
       \/ /\ error' = NetworkHintMsg
          /\ UNCHANGED serviceStatus
    /\ lastOp' = "HealthSettle"
    /\ UNCHANGED <<simulationMode, isRecording, recordingTime, isProcessing,
                   result, storageStatus, isMounted, camera, capture, run,
                   race, saveCall, logs, useProxy, healthTimer, polls, view>>

\* The await of checkHealth in performCheck settles: a status, which is
\* shown when the component is still mounted, or a rejection, which is
\* logged.  `more` tells whether another check is still in flight.
HealthSettle ==
    /\ healthInFlight
    /\ \E more \in BOOLEAN : healthInFlight' = more
    /\ \/ \E status \in ServiceStatuses :
            serviceStatus' = (IF isMounted THEN status ELSE serviceStatus)
       \/ UNCHANGED serviceStatus
    /\ lastOp' = "HealthSettle"
    /\ UNCHANGED <<simulationMode, ui, isMounted, camera, capture, run, race,
                   saveCall, logs, useProxy, healthTimer, polls, view>>

\* The proxy button: setUseProxy(!useProxy); performCheck(); and the health
\* effect runs again for the new performCheck.
ToggleProxy ==
    /\ isMounted
    /\ useProxy' = ~useProxy
    /\ healthInFlight' = TRUE
    /\ lastOp' = "other"
    /\ UNCHANGED <<simulationMode, ui, isMounted, camera, capture, run, race,
                   saveCall, logs, serviceStatus, healthTimer, polls, view>>

Next ==
    \/ StartRecording
    \/ Tick
    \/ DataAvailable
    \/ RecorderEnds
    \/ RecorderOnStop
    \/ ExtractSettle
    \/ AiResolve
    \/ AiReject
    \/ AiTimeout
    \/ AiClockTick
    \/ SaveSettle
    \/ CamGranted
    \/ CamDenied
    \/ Retry
    \/ Clear
    \/ SetSimulationMode
    \/ Unmount

Spec == Init /\ [][Next]_vars

\* The event loop runs every timer that is due: the deadline timer's
\* seconds pass and the timer fires.
FairSpec == Spec /\ WF_vars(AiClockTick) /\ WF_vars(AiTimeout)

\* The same, with analyzeVideo and saveScanResult settling in the end too.
SettleSpec == FairSpec /\ WF_vars(ExtractSettle) /\ WF_vars(SaveSettle)

\* The component with its health polling and proxy switch.  Spec is the
\* session alone: there no health check answers and the proxy is left off.
HealthNext ==
    \/ Next
    \/ HealthPoll
    \/ HealthSettle
    \/ ToggleProxy

HealthSpec == Init /\ [][HealthNext]_vars
\* processRecording taken by itself, as the function it is: called once with
\* the values of any render the component can have (live or simulation) and
\* any chunk buffer, and followed through its awaits.
Clips == {<<>>, <<[session |-> 1, size |-> 1]>>}

ProcessRecordingCall ==
    /\ UNCHANGED <<health, polls, view>>
    /\ pc = "idle"
    /\ \E sim \in BOOLEAN, busy \in BOOLEAN, chunks \in Clips :
          ProcessRecording([isRecording |-> FALSE, isProcessing |-> busy,
                            simulationMode |-> sim], chunks, 1)
    /\ lastOp' = "ProcessRecording"
    /\ UNCHANGED <<simulationMode, isRecording, recordingTime, result,
                   storageStatus, isMounted, camera, capture, race, saveCall,
                   interpCalls, saveCalls>>

ProcessNext ==
    \/ ProcessRecordingCall
    \/ ExtractSettle
    \/ AiResolve
    \/ AiReject
    \/ AiTimeout
    \/ AiClockTick
    \/ SaveSettle
    \/ Unmount

ProcessSpec == Init /\ [][ProcessNext]_vars
\* stopRecording taken by itself on a recorder that is not recording: the
\* stopRecording of a render whose isRecording is false is called.
StopIdle ==
    /\ ~isRecording
    /\ StopRecording(RenderValues, tick)
    /\ lastOp' = "StopRefused"
    /\ UNCHANGED <<simulationMode, recordingTime, result, storageStatus,
                   isMounted, camera, chunksRef, sessionId, race, saveCall,
                   interpCalls, saveCalls, health, polls, view>>

StopNext ==
    \/ Next
    \/ StopIdle

StopSpec == Init /\ [][StopNext]_vars

\* ------------------------------------------------- the fallback template
VerdictLine == "**AI Verdict:** Data captured and stored in local history."

\* The template literal of line 108, filled with the values of Fallback.
FallbackText(d) ==
    LET f == Fallback(d)
    IN  "### REPORT_STATUS: " \o f.status \o "\n\n"
        \o "**Summary:** Signals processed via local engine fallback.\n\n"
        \o "**Clinical Findings:**\n"
        \o "* [BPM: " \o ToString(f.bpm) \o "] - Normal rhythm detected.\n"
        \o "* [BP: " \o Decimal(f.systolic) \o "/" \o Decimal(f.diastolic)
        \o "] - Estimated values.\n\n"
        \o VerdictLine

\* ------------------------------------------------- renderClinicalReport
\* An element of the rendered report: its React key (the index of its
\* line), what it is, and what it shows.  A line that renders nothing gives
\* the kind "null".
Block(i, kind, text, positive, segments) ==
    [key |-> i, kind |-> kind, text |-> text, positive |-> positive,
     segments |-> segments]

\* Mutant of StatusBanner: STABLE is not among the positive keywords.
StatusBanner_OptimalOnly(line, i) ==
    LET status == Trim(RemoveAll(line, <<"###", "REPORT_STATUS:">>))
    IN  Block(i, "StatusBanner", status, Includes(status, "OPTIMAL"), <<>>)

\* Lines 210-217: the banner of a line that starts with '###'.
StatusBanner(line, i) ==
    LET status == Trim(RemoveAll(line, <<"###", "REPORT_STATUS:">>))
    IN  Block(i, "StatusBanner", status,
              Includes(status, "OPTIMAL") \/ Includes(status, "STABLE"),
              <<>>)

\* part.replace('[BPM:', '').replace(']', '')
MetricValue(part, tag) == RemoveFirst(RemoveFirst(part, tag), "]")

\* Lines 225-228: one part of a finding line.
Segment(part) ==
    IF StartsWith(part, "[BPM:")
    THEN [kind |-> "HR", value |-> MetricValue(part, "[BPM:")]
    ELSE IF StartsWith(part, "[BP:")
    THEN [kind |-> "BP", value |-> MetricValue(part, "[BP:")]
    ELSE IF StartsWith(part, "[HRV:")
    THEN [kind |-> "HRV", value |-> MetricValue(part, "[HRV:")]
    ELSE [kind |-> "PlainText", value |-> RemoveAll(part, <<"*">>)]

\* Lines 219-233
FindingLine(line, i) ==
    LET parts == SplitBrackets(line)
    IN  Block(i, "FindingLine", "", FALSE,
              [k \in 1..Len(parts) |-> Segment(parts[k])])

\* Lines 234-244
VerdictBlock(line, i) ==
    Block(i, "VerdictBlock", Trim(RemoveFirst(line, "**AI Verdict:**")),
          FALSE, <<>>)

\* Line 245
Heading(line, i) ==
    Block(i, "Heading", RemoveAll(line, <<"**">>), FALSE, <<>>)

\* Mutant of PlainLine: a paragraph is rendered for a blank line too.
PlainLine_KeepsBlank(line, i) ==
    Block(i, "PlainLine", RemoveAll(line, <<"*">>), FALSE, <<>>)

\* Line 246
PlainLine(line, i) ==
    IF Trim(line) # ""
    THEN Block(i, "PlainLine", RemoveAll(line, <<"*">>), FALSE, <<>>)
    ELSE Block(i, "null", "", FALSE, <<>>)

\* The condition of line 219
HasMetricToken(line) ==
    Includes(line, "[BPM:") \/ Includes(line, "[BP:")
        \/ Includes(line, "[HRV:")

\* Mutant of RenderLine: the verdict and bold markers are looked for before
\* the metric tokens.
RenderLine_MarkersFirst(line, i) ==
    IF StartsWith(line, "###") THEN StatusBanner(line, i)
    ELSE IF StartsWith(line, "**AI Verdict:**") THEN VerdictBlock(line, i)
    ELSE IF StartsWith(line, "**") THEN Heading(line, i)
    ELSE IF HasMetricToken(line) THEN FindingLine(line, i)
    ELSE PlainLine(line, i)

\* The callback of lines.map (209-247): the first condition that holds
\* decides what the line renders.
RenderLine(line, i) ==
    IF StartsWith(line, "###") THEN StatusBanner(line, i)
    ELSE IF HasMetricToken(line) THEN FindingLine(line, i)
    ELSE IF StartsWith(line, "**AI Verdict:**") THEN VerdictBlock(line, i)
    ELSE IF StartsWith(line, "**") THEN Heading(line, i)
    ELSE PlainLine(line, i)

\* Lines 204-250; keys count from 0 as the indices of lines.map do.
renderClinicalReport(text) ==
    IF text = "" THEN [root |-> "null", children |-> <<>>]
    ELSE LET lines == Split(text, "\n")
         IN  [root |-> "div",
              children |-> [i \in 1..Len(lines) |->
                                RenderLine(lines[i], i - 1)]]

\* ------------------------------------------- the report taken by itself
\* Lines a remote report is made of: the kinds of line the prompt asks the
\* service for, and lines that mix or miss their markers.
SampleLines ==
    {"### REPORT_STATUS: STABLE",
     "### REPORT_STATUS: ATTENTION",
     "### REPORT_STATUS: OPTIMAL [BPM: 72]",
     "### Summary",
     "* [BPM: 72] - Normal rhythm",
     "* [BP: 120/80] - **Estimated** values, [HRV: 45]",
     "[BPM:101] and [note]",
     "**AI Verdict:** Rhythm of [BPM: 72] is stable.",
     "**Findings:** [HRV: 45]",
     "**AI Verdict:** Data captured.",
     "**Clinical Findings:**",
     "Signals *processed* locally.",
     " ### REPORT_STATUS: STABLE",
     "",
     " \t"}

RECURSIVE Join(_)
Join(ls) ==
    IF Len(ls) = 1 THEN ls[1] ELSE ls[1] \o "\n" \o Join(Tail(ls))

Texts ==
    {Join(ls) : ls \in UNION {[1..n -> SampleLines] : n \in 1..MaxLines}}

\* Extraction answers the fallback is filled from: heart rates on both
\* sides of the threshold and of a rounding step, blood pressures with and
\* without their numbers.
FallbackInputs ==
    {[NoData EXCEPT !.present = TRUE, !.heart_rate = h,
                    !.blood_pressure = b] :
        h \in {724, 1000, 1004, 1005, 1016},
        b \in {SomeBp, NoBp, [systolic |-> 1300, diastolic |-> Undef],
               [systolic |-> Undef, diastolic |-> 850]}}

\* interpretVitals resolved with a text, which becomes the displayed
\* result's aiInterpretation.
RemoteReport ==
    /\ reportText = Null
    /\ \E t \in Texts : reportText' = t
    /\ UNCHANGED <<simulationMode, ui, isMounted, camera, capture, run, race,
                   saveCall, logs, lastOp, health, polls, rendered>>

\* The catch block of lines 106-109 ran on an extraction answer.
FallbackReport ==
    /\ reportText = Null
    /\ \E d \in FallbackInputs :
          /\ rppgData' = d
          /\ reportText' = FallbackText(d)
    /\ UNCHANGED <<simulationMode, ui, isMounted, camera, capture, run,
                   aiCall, aiTimer, aiClock, saveCall, logs, lastOp, health, polls,
                   rendered>>

\* The result panel renders: renderClinicalReport(result.aiInterpretation).
Render ==
    /\ reportText # Null
    /\ rendered = NotRendered
    /\ rendered' = renderClinicalReport(reportText)
    /\ UNCHANGED <<simulationMode, ui, isMounted, camera, capture, run, race,
                   saveCall, logs, lastOp, health, polls, reportText>>

ReportNext ==
    \/ RemoteReport
    \/ FallbackReport
    \/ Render

ReportSpec == Init /\ [][ReportNext]_vars

\* ------------------------------------- the health checks, told apart
\* performCheck of a render whose useProxy is `proxy` is called: one more
\* checkHealth call is in flight (lines 29-31).
PerformCheck(checks, n, proxy) == checks \cup {[id |-> n + 1, proxy |-> proxy]}

\* The 10 s interval fires: the performCheck the health effect was run
\* for, which is the one of the current useProxy.
PollCheck ==
    /\ healthTimer
    /\ healthIssued < MaxChecks
    /\ healthChecks' = PerformCheck(healthChecks, healthIssued, useProxy)
    /\ healthIssued' = healthIssued + 1
    /\ healthInFlight' = TRUE
    /\ UNCHANGED <<simulationMode, ui, isMounted, camera, capture, run, race,
                   saveCall, logs, lastOp, useProxy, serviceStatus,
                   healthTimer, healthShown, view>>

\* The proxy button (265): setUseProxy(!useProxy); performCheck() - the
\* performCheck of the render that shows the button, whose useProxy is the
\* old one; then the health effect runs again for the new performCheck
\* (49-53): a check with the new useProxy, and a new interval.
ProxyClick ==
    /\ isMounted
    /\ healthIssued + 2 <= MaxChecks
    /\ useProxy' = ~useProxy
    /\ healthChecks' =
          PerformCheck(PerformCheck(healthChecks, healthIssued, useProxy),
                       healthIssued + 1, ~useProxy)
    /\ healthIssued' = healthIssued + 2
    /\ healthInFlight' = TRUE
    /\ UNCHANGED <<simulationMode, ui, isMounted, camera, capture, run, race,
                   saveCall, logs, lastOp, serviceStatus, healthTimer,
                   healthShown, view>>

\* if (isMounted.current) setServiceStatus(status)
Shows(c) == isMounted

\* One checkHealth call settles: its answer is shown, or its rejection is
\* logged (32-35).
CheckSettles ==
    /\ \E c \in healthChecks :
          /\ healthChecks' = healthChecks \ {c}
          /\ healthInFlight' = (healthChecks' # {})
          /\ \/ /\ Shows(c)
                /\ serviceStatus' = "reported"
                /\ healthShown' = c
             \/ UNCHANGED <<serviceStatus, healthShown>>
    /\ UNCHANGED <<simulationMode, ui, isMounted, camera, capture, run, race,
                   saveCall, logs, lastOp, useProxy, healthTimer,
                   healthIssued, view>>

PollNext ==
    \/ PollCheck
    \/ ProxyClick
    \/ CheckSettles
    \/ Unmount

PollSpec == Init /\ [][PollNext]_vars
\* ===================================================================
\* The claims
\* ===================================================================
Active == pc \in {"extract", "interpret", "save"}

\* C1: when the tick first computes elapsed >= 15, its call of stopRecording
\* takes effect: isRecording becomes false, the tick is cancelled and the
\* session goes on to finalization or processing without user input.
C1_AutoStop ==
    [][(Tick /\ tick'.elapsed >= RecordingCeiling)
        => /\ isRecording' = FALSE
           /\ tick'.active = FALSE
           /\ recorder'.stopPending \/ pc' # pc]_vars

\* C2: recordingTime never exceeds 15 and no session is still capturing once
\* a tick has observed elapsed >= 15.
C2_Ceiling ==
    /\ recordingTime <= RecordingCeiling
    /\ tick.elapsed >= RecordingCeiling => ~isRecording

\* C3: a recording and a processing run (or a finalization whose onstop is
\* still pending) of two different sessions are never active at once.
C3_OneSessionAtATime ==
    isRecording =>
        /\ recorder.stopPending => recorder.session = sessionId
        /\ Active => procSession = sessionId

C3_Witness ==
    /\ lastOp = "StartRefused"
    /\ recorder.stopPending \/ Active

\* C4: a start request made while the session is capturing or processing
\* changes neither error, result, chunks, elapsed time, timer nor engine.
C4_StartNoOp ==
    [][(StartRecording /\ (isRecording \/ isProcessing))
        => UNCHANGED <<error, result, chunksRef, recordingTime, timerRef,
                       tick, recorder, isRecording, isProcessing,
                       sessionId>>]_vars

C4_Witness ==
    /\ lastOp = "StartRefused"
    /\ isRecording /\ ~isProcessing
    /\ chunksRef # <<>> /\ recordingTime > 0

\* C5: in live mode an empty finalized clip is never sent to the extractor:
\* the run fails with the 'No video data captured' error and ends in Error.
C5_EmptyCapture ==
    /\ \A c \in extractLog : ~c.simulation => c.size > 0
    /\ (lastOp = "RecorderOnStop" /\ chunksRef = <<>> /\ isMounted)
        => /\ error = NoVideoMsg
           /\ pc = "done" /\ ~isProcessing
           /\ result = <<>>
           /\ extractLog = {}

C5_Witness ==
    /\ lastOp = "RecorderOnStop"
    /\ chunksRef = <<>> /\ isMounted
    /\ error = NoVideoMsg

\* C6: an extraction answer without heart_rate and heartRate, or no answer
\* at all, ends the session in Error with the 'could not extract a pulse'
\* message; no result, no interpretation call, nothing persisted.
NoHeartRate(d) == ~d.present \/ (d.heart_rate = Undef /\ d.heartRate = Undef)

C6_NoPulse ==
    (lastOp = "ExtractResolved" /\ NoHeartRate(rppgData))
        => /\ pc = "done"
           /\ result = <<>>
           /\ interpCalls = 0 /\ aiCall = "none"
           /\ saveCalls = 0
           /\ isMounted => (error = NoPulseMsg /\ ~isProcessing)

C6_Witness ==
    /\ lastOp = "ExtractResolved"
    /\ rppgData = EmptyResponse
    /\ isMounted /\ error = NoPulseMsg

\* C7: an extraction answer that carries heart rate and blood pressure in
\* camelCase only is accepted like the snake_case one: the run goes on to
\* the interpretation instead of ending in Error, and a result carries the
\* answer's heart rate and blood pressure under either naming.
EitherName(snake, camel) == IF snake # Undef THEN snake ELSE camel

C7_CamelCaseAccepted ==
    /\ (lastOp = "ExtractResolved" /\ rppgData \in CamelResponses)
          => (pc = "interpret" /\ error # NoPulseMsg)
    /\ result # <<>> =>
          /\ result[1].heartRate =
                Round(EitherName(rppgData.heart_rate, rppgData.heartRate))
          /\ result[1].bloodPressure.systolic =
                Round(OrElse(EitherName(rppgData.blood_pressure.systolic,
                                        rppgData.bloodPressure.systolic),
                             DefaultSystolic * 10))

\* C8: the report of a result is the remote text when the remote call
\* resolved first, and otherwise the fallback whose BPM tag is the rounded
\* heart rate, the value stored as heartRate.
Report == result[1].aiInterpretation

C8_RemoteOrFallback ==
    (result # <<>> /\ isMounted) =>
        /\ Report.kind = "remote" => Report.body \in RemoteTexts
        /\ Report.kind = "fallback" =>
              /\ Report.bpm = result[1].heartRate
              /\ Report.bpm = Round(rppgData.heart_rate)
        /\ lastOp = "AiResolve" => Report.kind = "remote"
        /\ lastOp \in {"AiReject", "AiTimeout"} => Report.kind = "fallback"

C8_Witness ==
    /\ lastOp = "AiTimeout"
    /\ result # <<>>
    /\ Report.kind = "fallback"
    /\ Report.bpm = 101 /\ rppgData.heart_rate = 1005

\* C9: the loser of the race is ignored: a remote answer after the deadline
\* fired, and a deadline that fires after the remote answer, change neither
\* result nor error nor anything else the session shows.
C9_LoserIgnored ==
    [][((AiResolve \/ AiReject \/ AiTimeout) /\ pc # "interpret")
        => UNCHANGED <<result, error, storageStatus, isProcessing, pc,
                       saveCall, saveCalls>>]_vars

C9_Witness ==
    /\ lastOp = "LateAiResolve"
    /\ result # <<>>
    /\ Report.kind = "fallback"
    /\ aiTimer = "fired"

\* C10: after a successful extraction the interpretation stage ends, at the
\* latest when the 8 s deadline fires, and the step that ends it sets no
\* error.
C10_InterpretationEnds ==
    /\ [](pc = "interpret" => (aiTimer = "armed" /\ aiClock <= AiDeadline))
    /\ [][(pc = "interpret" /\ pc' # "interpret")
            => (error' = error /\ pc' \in {"save", "done"})]_vars
    /\ (pc = "interpret") ~> (pc # "interpret")

C10_Witness ==
    /\ lastOp = "AiTimeout"
    /\ aiCall = "pending"
    /\ pc = "save" /\ result # <<>>
    /\ error = Null

\* C11: a run that got past extraction ends with a report on the screen:
\* the step that decides the race sets a result whose aiInterpretation is a
\* non-empty text, whatever the remote call answered, and sets no error.
NonEmptyText(r) == r.kind = "fallback" \/ r.body # ""

C11_ReportShown ==
    (lastOp \in {"AiResolve", "AiReject", "AiTimeout"} /\ isMounted)
        => /\ result # <<>>
           /\ NonEmptyText(Report)
           /\ error \notin {NoPulseMsg, NoVideoMsg, NetworkHintMsg, ServerError}

\* C12: persistence never stands between the user and the result: while the
\* save is pending the result is already set, and the step that settles the
\* save - true, false or a failure - leaves result and error as they are; a
\* save that did not succeed shows as storage status 'local' and nothing else.
C12_SaveNeverBlocks ==
    /\ []((lastOp \in {"AiResolve", "AiReject", "AiTimeout"} /\ pc = "save")
            => result # <<>>)
    /\ [][SaveSettle
            => /\ result' = result
               /\ error' = error
               /\ saveCall' # "saved" => storageStatus' = "local"]_vars

C14_StagesInOrder ==
    /\ [][interpCalls' # interpCalls
            => /\ pc = "extract" /\ pc' = "interpret"
               /\ rppgData'.present /\ rppgData'.heart_rate # Undef]_vars
    /\ [][(result' # result /\ result' # <<>>)
            => /\ pc = "interpret" /\ pc' = "save"
               /\ aiCall' = "settled" \/ aiTimer' = "fired"]_vars
    /\ [][(pc = "interpret" /\ pc' # "interpret") => error' = error]_vars
    /\ [][saveCalls' # saveCalls
            => /\ pc = "interpret"
               /\ result' # <<>>
               /\ result'[1] =
                     ScanResult(rppgData, result'[1].aiInterpretation)]_vars

C14_Witness ==
    /\ saveCall = "saved" /\ storageStatus = "cloud"
    /\ extractLog # {} /\ interpCalls = 1 /\ saveCalls = 1
    /\ result # <<>> /\ pc = "done"

\* C15: no camera stream outlives the component: once it is unmounted, no
\* stream that getUserMedia handed out still has live tracks - neither one
\* granted before the unmount nor one granted after it.
C15_NoStreamOutlives ==
    ~isMounted => liveStreams = {}

\* C16: health polling goes its own way: a check is in flight from the
\* mount on, the poll is scheduled and can fire in every state of a mounted
\* component whatever the session does, and neither the poll nor the answer
\* of a check changes isRecording, isProcessing, recordingTime, result,
\* error or storageStatus.
C16_HealthIndependent ==
    /\ [](lastOp = "mount" => healthInFlight)
    /\ [](isMounted => (healthTimer /\ ENABLED HealthPoll))
    /\ [][HealthPoll => (healthInFlight' /\ UNCHANGED ui)]_vars
    /\ [][HealthSettle => UNCHANGED ui]_vars

C16_Witness ==
    /\ lastOp = "HealthSettle"
    /\ pc = "interpret" /\ isProcessing /\ isRecording
    /\ serviceStatus # Null

\* C17: stopping a recorder that is not recording changes nothing and
\* starts no processing run, and releasing the camera a second time, or
\* with no stream attached, changes nothing either.
C17_StopAndReleaseIdempotent ==
    /\ [][StopIdle
            => UNCHANGED <<simulationMode, ui, isMounted, camera, capture,
                           run, race, saveCall, logs, health>>]_vars
    /\ [](LET once == StopCamera(liveStreams, srcObject)
          IN /\ StopCamera(once, srcObject) = once
             /\ StopCamera(liveStreams, 0) = liveStreams)

C17_Witness ==
    /\ lastOp = "StopRefused"
    /\ error = EngineFailedMsg /\ sessionId = 1 /\ pc = "idle"
    /\ ~isMounted /\ srcObject # 0 /\ srcObject \notin liveStreams

\* C18: the stop of a recording session - the one the tick makes at the
\* ceiling - cancels the tick, so that recordingTime stays as it is from
\* then on, and finalizes once: with an engine recording the stop is handed
\* to the engine and processing is left to its completion callback, without
\* one processing is started by the stop itself.
C18_StopFinalizesOnce ==
    /\ [][(Tick /\ isRecording /\ tick'.elapsed >= RecordingCeiling)
            => /\ ~tick'.active /\ timerRef' = 0
               /\ IF recorder.state = "recording"
                  THEN recorder'.stopPending /\ pc' = pc
                  ELSE ~recorder'.stopPending /\ pc' # "idle"]_vars
    /\ [][tick.elapsed >= RecordingCeiling
            => recordingTime' = recordingTime]_vars

\* C19: a session started in simulation mode gets no recording engine; its
\* stop - the one the tick makes at the ceiling - goes straight to
\* processing, which calls the extractor with the simulation flag and an
\* empty placeholder; no simulation run ends with the 'No video data' error.
C19_SimulationSession ==
    /\ [][(StartRecording /\ simulationMode /\ isRecording')
            => recorder' = recorder]_vars
    /\ [][(Tick /\ tick.closure.simulationMode /\ isRecording
                /\ recorder.state # "recording"
                /\ tick'.elapsed >= RecordingCeiling)
            => /\ pc' \in {"extract", pc} \ {"idle"}
               /\ [simulation |-> TRUE, size |-> 0] \in extractLog'
               /\ recorder' = recorder]_vars
    /\ [][(pc' = "done" /\ pc # "done" /\ procClosure'.simulationMode)
            => error' # NoVideoMsg]_vars

\* C20: every result is fully defined: heartRate is the rounded heart rate;
\* hrv, systolic and diastolic are the rounded values of the answer, or 45,
\* 120 and 80 where the answer has none; stressLevel is 'High' exactly when
\* the answer's stress index (0 when it has none) exceeds 50, and 'Normal'
\* otherwise; and there is an interpretation.
Given(x, default) == IF x = Undef THEN default * 10 ELSE x

C20_ResultFullyDefined ==
    result # <<>> =>
        LET r == result[1]
            d == rppgData
        IN /\ r.heartRate = Round(d.heart_rate) /\ r.heartRate > 0
           /\ r.hrv = Round(Given(d.hrv, DefaultHrv))
           /\ r.bloodPressure.systolic =
                 Round(Given(d.blood_pressure.systolic, DefaultSystolic))
           /\ r.bloodPressure.diastolic =
                 Round(Given(d.blood_pressure.diastolic, DefaultDiastolic))
           /\ r.stressLevel \in {"High", "Normal"}
           /\ r.stressLevel = "High"
                 <=> Given(d.stress_index, 0) > StressThreshold * 10
           /\ r.aiInterpretation.kind \in {"remote", "fallback"}

C20_Witness ==
    /\ result # <<>>
    /\ rppgData.hrv = Undef /\ rppgData.blood_pressure = NoBp
    /\ rppgData.stress_index = Undef
    /\ result[1].hrv = DefaultHrv
    /\ result[1].bloodPressure =
          [systolic |-> DefaultSystolic, diastolic |-> DefaultDiastolic]
    /\ result[1].stressLevel = "Normal"

\* The shape the fallback report is claimed to have for the answer it was
\* filled from, given whether its status is to be ELEVATED.
LinesWith(lines, token) == {i \in 1..Len(lines) : Includes(lines[i], token)}

FallbackAsClaimed(elevated) ==
    LET lines == Split(reportText, "\n")
        bp == rppgData.blood_pressure
    IN /\ lines[1] = "### REPORT_STATUS: "
             \o (IF elevated THEN "ELEVATED" ELSE "STABLE")
       /\ Cardinality(LinesWith(lines, "[BPM:")) = 1
       /\ Cardinality(LinesWith(lines,
             "[BPM: " \o ToString(Round(rppgData.heart_rate)) \o "]")) = 1
       /\ Cardinality(LinesWith(lines, "[BP:")) = 1
       /\ Cardinality(LinesWith(lines,
             "[BP: " \o Decimal(Given(bp.systolic, DefaultSystolic))
             \o "/" \o Decimal(Given(bp.diastolic, DefaultDiastolic))
             \o "]")) = 1
       /\ lines[Len(lines)] = VerdictLine

IsBlank(line) ==
    \A k \in 1..Len(line) : SubSeq(line, k, k) \in WhiteSpace

\* The elements React shows: the children that are not null.
Blocks == SelectSeq(rendered.children, LAMBDA b : b.kind # "null")

C22_OneBlockPerLine ==
    rendered # NotRendered =>
        LET lines == Split(reportText, "\n")
            nonBlank == {i \in 1..Len(lines) : ~IsBlank(lines[i])}
        IN /\ Len(Blocks) = Cardinality(nonBlank)
           /\ {Blocks[k].key + 1 : k \in 1..Len(Blocks)} = nonBlank
           /\ \A k, l \in 1..Len(Blocks) :
                 k < l => Blocks[k].key < Blocks[l].key

C22_Witness ==
    /\ rendered.root = "div"
    /\ Len(rendered.children) = 2
    /\ reportText = " \t\n**Clinical Findings:**"
    /\ Len(Blocks) = 1 /\ Blocks[1].key = 1

\* C23: every line is rendered by the first rule that matches it, in the
\* order status banner, finding line, verdict block, heading, plain line: a
\* line that starts with '###' is a status banner even when it holds a
\* metric token, and a line that starts with the verdict marker or a bold
\* marker and holds '[BPM:', '[BP:' or '[HRV:' is a finding line.
KindClaimed(line) ==
    CASE StartsWith(line, "###") -> {"StatusBanner"}
      [] ~StartsWith(line, "###") /\ HasMetricToken(line) -> {"FindingLine"}
      [] ~StartsWith(line, "###") /\ ~HasMetricToken(line)
            /\ StartsWith(line, "**AI Verdict:**") -> {"VerdictBlock"}
      [] ~StartsWith(line, "###") /\ ~HasMetricToken(line)
            /\ ~StartsWith(line, "**AI Verdict:**")
            /\ StartsWith(line, "**") -> {"Heading"}
      [] OTHER -> {"PlainLine", "null"}

C23_FirstMatchWins ==
    rendered.root = "div" =>
        LET lines == Split(reportText, "\n")
        IN /\ Len(rendered.children) = Len(lines)
           /\ \A i \in 1..Len(lines) :
                 rendered.children[i].kind \in KindClaimed(lines[i])

C23_Witness ==
    /\ rendered.root = "div"
    /\ reportText = "### REPORT_STATUS: OPTIMAL [BPM: 72]"
                        \o "\n**AI Verdict:** Rhythm of [BPM: 72] is stable."
    /\ rendered.children[1].kind = "StatusBanner"
    /\ rendered.children[2].kind = "FindingLine"

\* C24: a line that starts with '###' and holds a status keyword renders a
\* status banner whose status is the line without '###' and
\* 'REPORT_STATUS:', trimmed, and which is positive exactly when that
\* status holds OPTIMAL or STABLE; '### REPORT_STATUS: STABLE' gives the
\* status 'STABLE', positive.  A line that starts with '###' and holds no
\* status keyword does not render a status banner.
StatusKeywords ==
    {"REPORT_STATUS", "OPTIMAL", "STABLE", "ATTENTION", "ELEVATED"}

HasStatusKeyword(line) == \E w \in StatusKeywords : Includes(line, w)

BannerAsClaimed(line, b) ==
    /\ b.kind = "StatusBanner"
    /\ b.text = Trim(RemoveAll(line, <<"###", "REPORT_STATUS:">>))
    /\ b.positive <=>
          (Includes(b.text, "OPTIMAL") \/ Includes(b.text, "STABLE"))
    /\ line = "### REPORT_STATUS: STABLE" => (b.text = "STABLE" /\ b.positive)

C24_StatusBanner ==
    rendered.root = "div" =>
        LET lines == Split(reportText, "\n")
        IN \A i \in 1..Len(lines) :
              StartsWith(lines[i], "###") =>
                  IF HasStatusKeyword(lines[i])
                  THEN BannerAsClaimed(lines[i], rendered.children[i])
                  ELSE rendered.children[i].kind # "StatusBanner"

\* C25: in a finding line every token '[BPM: v]', '[BP: v]', '[HRV: v]' is
\* shown as a tag of kind HR, BP, HRV whose value is v itself, without white
\* space or brackets around it ('72' for '* [BPM: 72] - Normal rhythm'),
\* and the text between the tokens is shown as plain text without its
\* emphasis markers, all in the order of the line.
MetricKinds ==
    <<[tag |-> "[BPM:", kind |-> "HR"], [tag |-> "[BP:", kind |-> "BP"],
      [tag |-> "[HRV:", kind |-> "HRV"]>>

\* What the claim has a part of a finding line shown as.
SegmentAsClaimed(part) ==
    IF \E m \in 1..3 : StartsWith(part, MetricKinds[m].tag)
    THEN LET m == CHOOSE m \in 1..3 : StartsWith(part, MetricKinds[m].tag)
         IN  [kind |-> MetricKinds[m].kind,
              value |-> Trim(SubSeq(part, Len(MetricKinds[m].tag) + 1,
                                    Len(part) - 1))]
    ELSE [kind |-> "PlainText", value |-> RemoveAll(part, <<"*">>)]

C25_MetricTags ==
    rendered.root = "div" =>
        LET lines == Split(reportText, "\n")
        IN \A i \in 1..Len(lines) :
              rendered.children[i].kind = "FindingLine" =>
                  LET parts == SplitBrackets(lines[i])
                      segments == rendered.children[i].segments
                  IN /\ Len(segments) = Len(parts)
                     /\ \A k \in 1..Len(parts) :
                           segments[k] = SegmentAsClaimed(parts[k])

\* C26: a start that is accepted is made from a state that is neither
\* capturing nor processing and leaves the session capturing with a clean
\* slate: error and result are null, the chunk buffer is empty,
\* recordingTime is 0, and one tick timer runs, no timer having run before.
Accepted == StartRecording /\ sessionId' # sessionId

CleanSlate ==
    /\ ~isRecording /\ ~isProcessing /\ ~tick.active
    /\ result' = <<>> /\ chunksRef' = <<>> /\ recordingTime' = 0

C26_CleanStart ==
    [][Accepted => /\ CleanSlate
                   /\ isRecording' /\ error' = Null
                   /\ tick'.active /\ timerRef' # 0]_vars

\* C26, amended: the same for a start whose recording engine starts, or
\* that needs none; when the engine throws, the start ends with the
\* 'Recording engine failed' error, not capturing and without a running
\* timer, result, chunks and recordingTime being reset all the same.
C26_CleanStartOrEngineFailure ==
    [][Accepted =>
        /\ CleanSlate
        /\ \/ isRecording' /\ error' = Null /\ tick'.active /\ timerRef' # 0
           \/ /\ ~simulationMode /\ srcObject # 0
              /\ ~isRecording' /\ error' = EngineFailedMsg /\ ~tick'.active]_vars

C26_Witness ==
    /\ lastOp = "StartRecording"
    /\ sessionId = 2
    /\ isRecording /\ tick.active /\ recordingTime = 0
    /\ error = Null /\ result = <<>> /\ chunksRef = <<>>

\* C27: a processing run that ends with a failure leaves the session in
\* Error with isProcessing false and result null; the error shown is the
\* fixed network hint when the failure's text holds 'Failed to fetch', and
\* the failure's own message otherwise.
RunFailed ==
    /\ pc # "done" /\ pc' = "done"
    /\ saveCall' \notin {"saved", "unsaved"}
    /\ isMounted

FailureTexts == {NoVideoMsg, NoPulseMsg} \cup ExtractErrors \cup SaveErrors

ShownFor(msg) ==
    IF msg = "TypeError: Failed to fetch" THEN NetworkHintMsg ELSE msg

C27_FailureEndsInError ==
    [][RunFailed => /\ error' \in {ShownFor(msg) : msg \in FailureTexts}
                    /\ ~isProcessing'
                    /\ result' = <<>>]_vars

\* C28: a ScanResult is derived once per session and then left as it is: a
\* session has at most one processing run and a run sets at most one
\* result; saveScanResult is called once, in the step that sets the result
\* it is given; and the displayed result changes otherwise only by Clear or
\* by an accepted start.
RunStarts == pc \in {"idle", "done"} /\ pc' \notin {"idle", "done"}

ResultDerived ==
    /\ pc = "interpret" /\ pc' = "save"
    /\ saveCalls' = saveCalls + 1
    /\ result' = <<ScanResult(rppgData, result'[1].aiInterpretation)>>

C28_ResultDerivedOnce ==
    /\ [][RunStarts => procSession' > procSession]_vars
    /\ [][pc' = "interpret" => pc \in {"extract", "interpret"}]_vars
    /\ [][saveCalls' # saveCalls => (ResultDerived /\ result' # result)]_vars
    /\ [][result' # result
            => \/ ResultDerived
               \/ result' = <<>> /\ (Clear \/ Accepted)]_vars
    /\ [](saveCalls <= procSession /\ procSession <= sessionId)

C28_Witness ==
    /\ pc = "done" /\ saveCalls = 1 /\ saveCall = "unsaved"
    /\ procSession = sessionId
    /\ result = <<>> /\ error = Null

\* C29: Result and Error are left by a user action only, and lead back to
\* Idle: Clear on a displayed result gives result null, error null, not
\* recording and not processing; Retry on an error gives error null and
\* requests the camera anew; and neither starts a recording or a run.
ResultLeft == result # <<>> /\ result' = <<>>
ErrorLeft == error # Null /\ error' = Null

C29_ClearGivesIdle ==
    [][(Clear /\ error = Null /\ ~isProcessing)
        => /\ result' = <<>> /\ error' = Null
           /\ ~isRecording' /\ ~isProcessing']_vars

C29_RetryAcquires ==
    [][Retry => /\ error' = Null
                /\ camCount' = camCount + 1
                /\ camPending' = camPending + 1]_vars

C29_NothingStarted ==
    [][(Clear \/ Retry)
        => UNCHANGED <<isRecording, isProcessing, capture, run, race,
                       saveCall, logs>>]_vars

C29_LeftByUserOnly ==
    /\ [][ResultLeft => (Clear \/ Accepted)]_vars
    /\ [][ErrorLeft => (Retry \/ Accepted)]_vars

C29_BackToIdle ==
    /\ C29_LeftByUserOnly
    /\ C29_ClearGivesIdle
    /\ C29_RetryAcquires
    /\ C29_NothingStarted

\* C30: a denied camera request sets the 'Camera access denied' error and
\* is not repeated by the component: getUserMedia is called again only by
\* Retry, and a denial that arrives after the unmount sets no state.
C30_DeniedNotRetried ==
    /\ [][(CamDenied /\ isMounted) => error' = CameraDeniedMsg]_vars
    /\ [][CamDenied => /\ camCount' = camCount
                        /\ camPending' = camPending - 1]_vars
    /\ [][camCount' # camCount => Retry]_vars
    /\ [][(CamDenied /\ ~isMounted)
            => UNCHANGED <<simulationMode, ui, isMounted, srcObject,
                           liveStreams, capture, run, race, saveCall, logs,
                           health>>]_vars

C30_Witness ==
    /\ error = CameraDeniedMsg
    /\ camCount = 1 /\ camPending = 0
    /\ srcObject = 0 /\ liveStreams = {}
    /\ isMounted

\* C31: result and error are never both non-null - not when a camera
\* denial arrives after a result has been produced, and not when the save
\* fails after the result was set.
C31_ResultXorError == ~(result # <<>> /\ error # Null)

\* C32: the clip a recorder's onstop hands to processRecording is made of
\* the chunks of that recorder's session and of no other, and no later
\* start has reset the buffer or is filling it: the recorder's session is
\* still the current one.
OwnChunks(chunks, sess) ==
    \A k \in 1..Len(chunks) : chunks[k].session = sess

C32_ClipOfStoppedSession ==
    /\ [][RecorderOnStop
            => /\ recorder.session = sessionId
               /\ OwnChunks(chunksRef', recorder.session)
               /\ Len(chunksRef') >= Len(chunksRef)
               /\ procSession' = recorder.session]_vars
    /\ [](OwnChunks(chunksRef, sessionId))

C32_Witness ==
    /\ lastOp = "RecorderOnStop"
    /\ sessionId = 2 /\ procSession = 2
    /\ chunksRef # <<>> /\ chunksRef[1].session = 2
    /\ pc = "extract"

\* C33: at most one camera stream is held at any time: a stream whose
\* tracks are live is the one attached to the video element, none is
\* overwritten by a later acquisition while it is live.
C33_OneStream ==
    /\ Cardinality(liveStreams) <= 1
    /\ isMounted => liveStreams \subseteq {srcObject}

\* C34: the service status held is that of the latest check answered: the
\* answer of a check issued earlier - or under the previous proxy setting -
\* never replaces the answer of a check issued later.
C34_NewestStatusKept == [][healthShown'.id >= healthShown.id]_vars

\* C35: unmount tears the session down: afterwards no tick timer and no
\* health interval is scheduled, the recording engine is not recording, and
\* no later callback or completion writes recordingTime, result, error,
\* storageStatus, isProcessing or serviceStatus.
C35_NothingScheduled ==
    ~isMounted => /\ ~tick.active
                  /\ ~healthTimer
                  /\ recorder.state # "recording"

C35_NothingWritten ==
    [][~isMounted => UNCHANGED <<recordingTime, result, error, storageStatus,
                                 isProcessing, serviceStatus>>]_vars

C35_UnmountTearsDown == []C35_NothingScheduled /\ C35_NothingWritten

\* C36: the storage badge belongs to the displayed result: storageStatus
\* is non-null only while the result whose save set it is displayed; it is
\* null after Clear, after an accepted start, and when the run that is the
\* last to have ended left an error.
C36_BadgeWithResult ==
    storageStatus # Null => /\ result # <<>>
                            /\ saveCall \in {"saved", "unsaved"}
                            /\ procSession = sessionId

\* C37: processing terminates: when the extraction and the save settle in
\* the end, a processing run of a component that stays mounted ends, with
\* isProcessing false and with either the result or the error set by it,
\* not both, in a state from which a further session can be started.
RunEnded == pc = "done" /\ ~isProcessing

RunLeft ==
    IF saveCall = "none" THEN result = <<>> /\ error # Null
    ELSE result # <<>> /\ error = Null

C37_RunEnds == Active ~> (~isMounted \/ RunEnded)

C37_ProcessingTerminates ==
    Active ~> (~isMounted \/ (RunEnded /\ RunLeft /\ ~StartRefused(RenderValues)))

\* C38: when creating or starting the recording engine fails during a
\* start, the session is back in Idle with the "Recording engine failed"
\* error: isRecording is false, nothing is processing, the tick timer is
\* cancelled and stays so for that session, no engine belongs to it and no
\* processing run is ever started for it.
EngineFailedAt(s) == lastOp = "StartEngineFailed" /\ sessionId = s

C38_BackInIdle ==
    lastOp = "StartEngineFailed" =>
        /\ error = EngineFailedMsg
        /\ result = <<>>
        /\ ~isRecording /\ ~isProcessing
        /\ ~tick.active

C38_SessionStaysQuiet(s) ==
    /\ procSession # s
    /\ recorder.session # s
    /\ sessionId = s => ~tick.active /\ ~isRecording

C38_EngineFailure ==
    /\ []C38_BackInIdle
    /\ \A s \in 1..MaxSessions :
          [](EngineFailedAt(s) => []C38_SessionStaysQuiet(s))

C38_Witness ==
    /\ EngineFailedAt(2)
    /\ error = EngineFailedMsg /\ ~isRecording /\ ~tick.active
    /\ srcObject # 0 /\ procSession = 0

\* C39: the fallback report renders to the same blocks whatever the
\* vitals: a status banner, the summary heading, the clinical findings
\* heading, a finding line with one HR tag, a finding line with one BP tag
\* and the verdict block, in that order; the banner is positive exactly
\* when the rounded heart rate is at most 100.
KindsOf(blocks) == [k \in 1..Len(blocks) |-> blocks[k].kind]

TagKinds == {MetricKinds[k].kind : k \in 1..Len(MetricKinds)}

TagsOf(block) ==
    LET segs == block.segments
    IN  [kind \in TagKinds |->
            Cardinality({k \in 1..Len(segs) : segs[k].kind = kind})]

C39_FallbackBlocks ==
    (rppgData.present /\ rendered # NotRendered) =>
        /\ rendered.root = "div"
        /\ KindsOf(Blocks) = <<"StatusBanner", "Heading", "Heading",
                               "FindingLine", "FindingLine", "VerdictBlock">>
        /\ StartsWith(Blocks[2].text, "Summary:")
        /\ Blocks[3].text = "Clinical Findings:"
        /\ TagsOf(Blocks[4]) = [kind \in TagKinds |->
                                   IF kind = "HR" THEN 1 ELSE 0]
        /\ TagsOf(Blocks[5]) = [kind \in TagKinds |->
                                   IF kind = "BP" THEN 1 ELSE 0]
        /\ Blocks[1].positive <=>
               Round(rppgData.heart_rate) <= ElevatedAbove

C39_Witness ==
    /\ rppgData.present /\ rppgData.heart_rate = 1005
    /\ rendered # NotRendered
    /\ Len(Blocks) = 6
    /\ Blocks[1].text = "ELEVATED" /\ ~Blocks[1].positive
====
